---- MODULE Spec2Model ----
(***************************************************************************)
(* A model of src/translate/model.py of pyopenvr: the declaration model    *)
(* (Class, Method, Function, Parameter) and the type-name translator.      *)
(*                                                                         *)
(* Spellings are sequences of one-character strings, so that the regular   *)
(* expressions of translate_type are modelled by what they match.  The     *)
(* only white space of the spelling alphabet is the blank.                 *)
(***************************************************************************)
EXTENDS Integers, Sequences, FiniteSets, TLC

VARIABLES
    \* the translator: the spelling drawn, its translation, and the translation of that
    origin, type_name, result, result2, tphase,
    \* a Class, Method or Function under construction, its rendering, and a run of the wrapper
    node, decl, mphase, rendered, fntable, pc, env, calls, outcome

tvars == <<origin, type_name, result, result2, tphase>>
mvars == <<node, decl, mphase, rendered, fntable, pc, env, calls, outcome>>
vars == <<tvars, mvars>>

(***************************************************************************)
(* Bounds of the checked instances.                                        *)
(***************************************************************************)
MaxStars == 3
MaxDims == 2
MaxFrags == 3
MaxFuel == 10
MaxParams == 3
MaxRet == 1
MaxStatus == 1
MaxMethods == 3

(***************************************************************************)
(* Characters.                                                             *)
(***************************************************************************)
Lower == {"a","b","c","d","e","f","g","h","i","j","k","l","m",
          "n","o","p","q","r","s","t","u","v","w","x","y","z"}
Upper == {"A","B","C","D","E","F","G","H","I","J","K","L","M",
          "N","O","P","Q","R","S","T","U","V","W","X","Y","Z"}
Digit == {"0","1","2","3","4","5","6","7","8","9"}

\* \w of the re module
IsWordChar(c) == c \in Lower \cup Upper \cup Digit \cup {"_"}
\* \s of the re module
IsSpace(c) == c = " "

\* \b at the position before s[i] (i = Len(s) + 1: at the end)
WordAt(s, k) == k \in 1..Len(s) /\ IsWordChar(s[k])
Boundary(s, i) == WordAt(s, i - 1) # WordAt(s, i)

\* the literal lit occurs in s at position i
HasAt(s, i, lit) ==
    /\ i >= 1
    /\ i + Len(lit) - 1 <= Len(s)
    /\ \A k \in 1..Len(lit) : s[i + k - 1] = lit[k]

\* the position after a greedy \s* that starts at i
SkipSpaces(s, i) ==
    CHOOSE j \in i..(Len(s) + 1) :
        /\ \A k \in i..(j - 1) : IsSpace(s[k])
        /\ j = Len(s) + 1 \/ ~IsSpace(s[j])

\* the position after a greedy \d* that starts at i
SkipDigits(s, i) ==
    CHOOSE j \in i..(Len(s) + 1) :
        /\ \A k \in i..(j - 1) : s[k] \in Digit
        /\ j = Len(s) + 1 \/ s[j] \notin Digit

From(s, i) == SubSeq(s, i, Len(s))

Max(S) == CHOOSE x \in S : \A y \in S : y <= x

\* str.strip()
Strip(s) ==
    LET keep == {k \in 1..Len(s) : ~IsSpace(s[k])}
    IN  IF keep = {} THEN <<>>
        ELSE SubSeq(s, CHOOSE a \in keep : \A b \in keep : a <= b, Max(keep))

StartsWith(s, lit) == HasAt(s, 1, lit)

(***************************************************************************)
(* Literals.                                                               *)
(***************************************************************************)
S_const == <<"c","o","n","s","t">>
S_struct == <<"s","t","r","u","c","t">>
S_enum == <<"e","n","u","m">>
S_union == <<"u","n","i","o","n">>
S_unsigned == <<"u","n","s","i","g","n","e","d">>
S_int == <<"i","n","t">>
S_uint == <<"u","i","n","t">>
S_float == <<"f","l","o","a","t">>
S_double == <<"d","o","u","b","l","e">>
S_char == <<"c","h","a","r">>
S_uchar == <<"u","c","h","a","r">>
S_short == <<"s","h","o","r","t">>
S_ushort == <<"u","s","h","o","r","t">>
S_long == <<"l","o","n","g">>
S_ulong == <<"u","l","o","n","g">>
S_longlong == <<"l","o","n","g","l","o","n","g">>
S_void == <<"v","o","i","d">>
S_bool == <<"b","o","o","l">>
S_None == <<"N","o","n","e">>
S_c_ == <<"c","_">>
S_c_char_p == <<"c","_","c","h","a","r","_","p">>
S_c_void_p == <<"c","_","v","o","i","d","_","p">>
S_openvr_bool == <<"o","p","e","n","v","r","_","b","o","o","l">>
S_VR_ == <<"V","R","_">>
S_vr == <<"v","r",":",":">>
S_ptr == <<"p","t","r">>
S__t == <<"_","t">>
S_8_t == <<"8","_","t">>
S_16_t == <<"1","6","_","t">>
S_32_t == <<"3","2","_","t">>
S_64_t == <<"6","4","_","t">>
S_8 == <<"8">>
S_16 == <<"1","6">>
S_32 == <<"3","2">>
S_64 == <<"6","4">>
S_u == <<"u">>
S_POINTER == <<"P","O","I","N","T","E","R","(">>
S_close == <<")">>
S_open == <<"(">>
S_times == <<" ","*"," ">>
S_POINTER_None == <<"P","O","I","N","T","E","R","(","N","o","n","e",")">>

(***************************************************************************)
(* The regular expressions of translate_type.  A matcher gives the         *)
(* position after the match that starts at i, or 0 when there is none.     *)
(***************************************************************************)
\* \bKW\s+
MatchWordSpaces(s, i, kw) ==
    IF /\ Boundary(s, i)
       /\ HasAt(s, i, kw)
       /\ i + Len(kw) <= Len(s)
       /\ IsSpace(s[i + Len(kw)])
    THEN SkipSpaces(s, i + Len(kw))
    ELSE 0

\* \s+KW\b
MatchSpacesWord(s, i, kw) ==
    IF i <= Len(s) /\ IsSpace(s[i])
    THEN LET j == SkipSpaces(s, i)
         IN  IF HasAt(s, j, kw) /\ Boundary(s, j + Len(kw))
             THEN j + Len(kw) ELSE 0
    ELSE 0

\* LIT\b
MatchLitBoundary(s, i, lit) ==
    IF HasAt(s, i, lit) /\ Boundary(s, i + Len(lit)) THEN i + Len(lit) ELSE 0

\* \bLIT
MatchBoundaryLit(s, i, lit) ==
    IF Boundary(s, i) /\ HasAt(s, i, lit) THEN i + Len(lit) ELSE 0

\* \bLIT\b
MatchWord(s, i, lit) ==
    IF Boundary(s, i) /\ HasAt(s, i, lit) /\ Boundary(s, i + Len(lit))
    THEN i + Len(lit) ELSE 0

\* \blong\s+long\b
MatchLongLong(s, i) ==
    LET j == MatchWordSpaces(s, i, S_long)
    IN  IF j > 0 /\ HasAt(s, j, S_long) /\ Boundary(s, j + Len(S_long))
        THEN j + Len(S_long) ELSE 0

\* re.sub(pattern, repl, s): every leftmost non-overlapping match, from i on
RECURSIVE ReSub(_, _, _, _)
ReSub(M(_, _), repl, s, i) ==
    IF i > Len(s) THEN <<>>
    ELSE LET e == M(s, i)
         IN  IF e > 0 THEN repl \o ReSub(M, repl, s, e)
             ELSE <<s[i]>> \o ReSub(M, repl, s, i + 1)

\* re.match(r'^\s*(?:const\s+)?char\s*\*\s*$', s)
IsCharPointer(s) ==
    LET a == SkipSpaces(s, 1)
        b == IF HasAt(s, a, S_const) /\ a + 5 <= Len(s) /\ IsSpace(s[a + 5])
             THEN SkipSpaces(s, a + 5) ELSE a
        d == SkipSpaces(s, b + Len(S_char))
    IN  /\ HasAt(s, b, S_char)
        /\ d <= Len(s)
        /\ s[d] = "*"
        /\ SkipSpaces(s, d + 1) = Len(s) + 1

\* re.match(r'^(float|u?int|double|u?char|u?short|u?long)', s)
IsPrimitiveRoot(s) ==
    \E root \in {S_float, S_int, S_uint, S_double, S_char, S_uchar,
                 S_short, S_ushort, S_long, S_ulong} : StartsWith(s, root)

\* re.match(r'^([^\*]+\S)\s*[\*&](.*)$', s): the length of [^\*]+, or 0
PointerPrefix(s) ==
    LET ok == {n \in 1..(Len(s) - 2) :
                 /\ \A k \in 1..n : s[k] # "*"
                 /\ ~IsSpace(s[n + 1])
                 /\ LET j == SkipSpaces(s, n + 2)
                    IN  j <= Len(s) /\ s[j] \in {"*", "&"}}
    IN  IF ok = {} THEN 0 ELSE Max(ok)

\* re.match(r'^([^\*]+)ptr(?:_t)?(.*)$', s): the length of [^\*]+, or 0
PtrTypedefPrefix(s) ==
    LET ok == {n \in 1..(Len(s) - 3) :
                 /\ \A k \in 1..n : s[k] # "*"
                 /\ HasAt(s, n + 1, S_ptr)}
    IN  IF ok = {} THEN 0 ELSE Max(ok)

\* re.match(r'^([^\[]+\S)\s*\[(\d+)\](.*)$', s): the length of [^\[]+, or 0
ArrayPrefix(s) ==
    LET ok == {n \in 1..(Len(s) - 2) :
                 /\ \A k \in 1..n : s[k] # "["
                 /\ ~IsSpace(s[n + 1])
                 /\ LET j == SkipSpaces(s, n + 2)
                        d == SkipDigits(s, j + 1)
                    IN  /\ j <= Len(s) /\ s[j] = "["
                        /\ d > j + 1
                        /\ d <= Len(s) /\ s[d] = "]"}
    IN  IF ok = {} THEN 0 ELSE Max(ok)

(***************************************************************************)
(* translate_type.  NoResult stands for a call that has not returned       *)
(* within MaxFuel nested calls and loop iterations.                        *)
(***************************************************************************)
NoResult == <<"no result">>

RECURSIVE translate_type_fuel(_, _, _)
RECURSIVE PointerLoop(_, _)
RECURSIVE PtrTypedefLoop(_, _)

\* lines 466-471: strip, then drop const, struct, enum and union
StripNoise(s) ==
    LET r1 == Strip(s)
        r2 == ReSub(LAMBDA x, i : MatchWordSpaces(x, i, S_const), <<>>, r1, 1)
        r3 == ReSub(LAMBDA x, i : MatchSpacesWord(x, i, S_const), <<>>, r2, 1)
        r4 == ReSub(LAMBDA x, i : MatchWordSpaces(x, i, S_struct), <<>>, r3, 1)
        r5 == ReSub(LAMBDA x, i : MatchWordSpaces(x, i, S_enum), <<>>, r4, 1)
    IN  ReSub(LAMBDA x, i : MatchWordSpaces(x, i, S_union), <<>>, r5, 1)

\* lines 473-480: no implicit int, then the abbreviations for ctypes
Abbreviate(s) ==
    LET r1 == IF s = S_unsigned THEN S_unsigned \o <<" ">> \o S_int ELSE s
        r2 == ReSub(LAMBDA x, i : MatchLitBoundary(x, i, S_8_t), S_8, r1, 1)
        r3 == ReSub(LAMBDA x, i : MatchLitBoundary(x, i, S_16_t), S_16, r2, 1)
        r4 == ReSub(LAMBDA x, i : MatchLitBoundary(x, i, S_32_t), S_32, r3, 1)
        r5 == ReSub(LAMBDA x, i : MatchLitBoundary(x, i, S_64_t), S_64, r4, 1)
    IN  ReSub(LAMBDA x, i : MatchWordSpaces(x, i, S_unsigned), S_u, r5, 1)

\* lines 481-482: char* is a byte string
CharPointer(s) == IF IsCharPointer(s) THEN S_c_char_p ELSE s

\* line 483
LongLong(s) == ReSub(MatchLongLong, S_longlong, s, 1)

\* lines 485-486: prepend 'c_' for ctypes
PrefixPrimitive(s) == IF IsPrimitiveRoot(s) THEN S_c_ \o s ELSE s

\* line 488: remove leading "VR_"
StripVR(s) == ReSub(LAMBDA x, i : MatchBoundaryLit(x, i, S_VR_), <<>>, s, 1)

\* PointerLoop with 'if' for 'while': a single pass
PointerLoopOnce(s, fuel) ==
    LET n == PointerPrefix(s)
    IN  IF n = 0 THEN s
        ELSE IF fuel = 0 THEN NoResult
        ELSE LET j == SkipSpaces(s, n + 2)
                 pointee_type == translate_type_fuel(SubSeq(s, 1, n + 1), FALSE, fuel - 1)
             IN  IF pointee_type = NoResult THEN NoResult
                 ELSE S_POINTER \o pointee_type \o S_close \o From(s, j + 1)

\* lines 490-494: HmdStruct* -> POINTER(HmdStruct), to a fixpoint
PointerLoop(s, fuel) ==
    LET n == PointerPrefix(s)
    IN  IF n = 0 THEN s
        ELSE IF fuel = 0 THEN NoResult
        ELSE LET j == SkipSpaces(s, n + 2)
                 pointee_type == translate_type_fuel(SubSeq(s, 1, n + 1), FALSE, fuel - 1)
             IN  IF pointee_type = NoResult THEN NoResult
                 ELSE PointerLoop(S_POINTER \o pointee_type \o S_close \o From(s, j + 1),
                                  fuel - 1)

\* lines 497-501: uintptr_t -> POINTER(c_uint), to a fixpoint
PtrTypedefLoop(s, fuel) ==
    LET n == PtrTypedefPrefix(s)
    IN  IF n = 0 THEN s
        ELSE IF fuel = 0 THEN NoResult
        ELSE LET e == IF HasAt(s, n + 4, S__t) THEN n + 6 ELSE n + 4
                 pointee_type == translate_type_fuel(SubSeq(s, 1, n), FALSE, fuel - 1)
             IN  IF pointee_type = NoResult THEN NoResult
                 ELSE PtrTypedefLoop(S_POINTER \o pointee_type \o S_close \o From(s, e),
                                     fuel - 1)

\* VoidBoolNamespace with 'bool' for r'\bbool\b'
VoidBoolNamespaceNoBoundary(s) ==
    LET r1 == IF s = S_void THEN S_None ELSE s
        r2 == IF r1 = S_POINTER_None THEN S_c_void_p ELSE r1
        r3 == ReSub(LAMBDA x, i : IF HasAt(x, i, S_bool) THEN i + Len(S_bool) ELSE 0,
                    S_openvr_bool, r2, 1)
    IN  IF StartsWith(r3, S_vr) THEN From(r3, 5) ELSE r3

\* lines 503-511: void, void*, bool and the vr:: namespace
VoidBoolNamespace(s) ==
    LET r1 == IF s = S_void THEN S_None ELSE s
        r2 == IF r1 = S_POINTER_None THEN S_c_void_p ELSE r1
        r3 == ReSub(LAMBDA x, i : MatchWord(x, i, S_bool), S_openvr_bool, r2, 1)
    IN  IF StartsWith(r3, S_vr) THEN From(r3, 5) ELSE r3

\* ArrayStep that never parenthesises an inner level
ArrayStepFlat(s, bracket, fuel) ==
    LET n == ArrayPrefix(s)
    IN  IF n = 0 THEN s
        ELSE IF fuel = 0 THEN NoResult
        ELSE LET j == SkipSpaces(s, n + 2)
                 d == SkipDigits(s, j + 1)
                 t == translate_type_fuel(SubSeq(s, 1, n + 1) \o From(s, d + 1),
                                          TRUE, fuel - 1)
             IN  IF t = NoResult THEN NoResult
                 ELSE t \o S_times \o SubSeq(s, j + 1, d - 1)

\* ArrayStep that recurses on the spelling with the peeled dimension left in
ArrayStepKeepDim(s, bracket, fuel) ==
    LET n == ArrayPrefix(s)
    IN  IF n = 0 THEN s
        ELSE IF fuel = 0 THEN NoResult
        ELSE LET j == SkipSpaces(s, n + 2)
                 d == SkipDigits(s, j + 1)
                 t == translate_type_fuel(s, TRUE, fuel - 1)
                 r == t \o S_times \o SubSeq(s, j + 1, d - 1)
             IN  IF t = NoResult THEN NoResult
                 ELSE IF bracket THEN S_open \o r \o S_close ELSE r

\* lines 513-520: float[3] -> c_float * 3
ArrayStep(s, bracket, fuel) ==
    LET n == ArrayPrefix(s)
    IN  IF n = 0 THEN s
        ELSE IF fuel = 0 THEN NoResult
        ELSE LET j == SkipSpaces(s, n + 2)
                 d == SkipDigits(s, j + 1)
                 t == translate_type_fuel(SubSeq(s, 1, n + 1) \o From(s, d + 1),
                                          TRUE, fuel - 1)
                 r == t \o S_times \o SubSeq(s, j + 1, d - 1)
             IN  IF t = NoResult THEN NoResult
                 ELSE IF bracket THEN S_open \o r \o S_close ELSE r

translate_type_fuel(name, bracket, fuel) ==
    LET r1 == StripVR(PrefixPrimitive(LongLong(CharPointer(Abbreviate(StripNoise(name))))))
        r2 == PointerLoop(r1, fuel)
        r3 == IF r2 = NoResult THEN NoResult ELSE PtrTypedefLoop(r2, fuel)
    IN  IF r3 = NoResult THEN NoResult
        ELSE ArrayStep(VoidBoolNamespace(r3), bracket, fuel)

translate_type(name, bracket) == translate_type_fuel(name, bracket, MaxFuel)

(***************************************************************************)
(* The spellings handed to translate_type.                                 *)
(***************************************************************************)
Blank == <<" ">>

\* the primitive base types: plain C types and the fixed-width aliases
Primitives ==
    {S_float, S_double, S_int, S_unsigned \o Blank \o S_int, S_char,
     S_unsigned \o Blank \o S_char, S_short, S_long, S_long \o Blank \o S_long}
    \cup {r \o w \o S__t : r \in {S_int, S_uint}, w \in {S_8, S_16, S_32, S_64}}

\* the base types of pointer spellings
Bases == Primitives \cup {S_void, S_bool}

Stars(n) == [k \in 1..n |-> "*"]

RECURSIVE Flatten(_)
Flatten(ss) == IF ss = <<>> THEN <<>> ELSE Head(ss) \o Flatten(Tail(ss))

SeqsUpTo(S, n) == UNION {[1..k -> S] : k \in 1..n}

DimValues == {<<"3">>, <<"4">>, <<"1","2">>}
DimSeqs == SeqsUpTo(DimValues, MaxDims)
Brackets(ds) == Flatten([k \in 1..Len(ds) |-> <<"[">> \o ds[k] \o <<"]">>])

Fragments == {S_int, <<"*">>, <<"&">>, S_ptr, S__t, <<"[","3","]">>, Blank, <<"x">>}
FragSeqs == SeqsUpTo(Fragments, MaxFrags)

Origins ==
    [kind : {"pointer"}, base : Bases, stars : 0..MaxStars]
    \cup [kind : {"array"}, base : Primitives, dims : DimSeqs]
    \cup [kind : {"malformed"}, frags : FragSeqs]

Spelling(o) ==
    CASE o.kind = "pointer" -> o.base \o Stars(o.stars)
      [] o.kind = "array" -> o.base \o Brackets(o.dims)
      [] o.kind = "malformed" -> Flatten(o.frags)

(***************************************************************************)
(* The declaration model.  A clang type is the record of what the model    *)
(* reads of it: its kind, its spelling and, of a pointer, the pointee's    *)
(* spelling, kind and const qualification.  Names are strings; an          *)
(* annotation is the sequence of its tokens.  Docstrings and default       *)
(* values only decorate the rendered text and are left out.                *)
(***************************************************************************)
S_uint32_t == S_uint \o S_32 \o S__t
S_EVRInitError == S_vr \o <<"E","V","R","I","n","i","t","E","r","r","o","r">>
S_State_t == <<"V","R","S","t","a","t","e","_","t">>
S_Error == <<"E","r","r","o","r">>
PtrTo(sp) == sp \o <<" ","*">>

\* A clang Type as the generator reads it: kind, spelling, and of the pointee
\* its spelling, const-qualification and kind
ClangType(kind, spelling, pointee, pconst, pkind) ==
    [kind |-> kind, spelling |-> spelling, pointee |-> pointee, pconst |-> pconst,
     pkind |-> pkind]

ValueType(sp) == ClangType("OTHER", sp, <<>>, FALSE, "INVALID")
PointerType(sp, const, pkind) ==
    ClangType("POINTER", (IF const THEN S_const \o Blank ELSE <<>>) \o PtrTo(sp),
              sp, const, pkind)

T_uint32 == ValueType(S_uint32_t)
T_float_ptr == PointerType(S_float, FALSE, "FLOAT")
T_char_ptr == PointerType(S_char, FALSE, "CHAR_S")
T_error_ptr == PointerType(S_EVRInitError, FALSE, "ENUM")
T_const_ptr == PointerType(S_State_t, TRUE, "RECORD")
T_void_ptr == PointerType(S_void, FALSE, "VOID")

\* re.match(r'^(vr::)?E\S+Error$', t)
IsErrorName(t) ==
    LET u == IF StartsWith(t, S_vr) THEN From(t, 5) ELSE t
    IN  /\ Len(u) >= 7
        /\ u[1] = "E"
        /\ HasAt(u, Len(u) - 4, S_Error)
        /\ \A k \in 1..Len(u) : ~IsSpace(u[k])

NoAnnotation == <<>>
OutStringAnnotation == <<"out_string:", " ", ";">>
ArrayAnnotation(count) == <<"array_count:", count, ";">>

\* Parameter.__init__, lines 255-262
Parameter(name, type_, annotation) ==
    [name |-> IF name = "type" THEN "type_" ELSE name,
     type |-> type_,
     annotation |-> annotation,
     is_count |-> FALSE]

\* Parameter.is_error, lines 264-270
is_error(p) ==
    IF p.type.kind # "POINTER" THEN FALSE
    ELSE IsErrorName(p.type.pointee_translated)

\* Parameter.is_array, lines 272-275: re.match(r'array_count:(\S+);', annotation)
is_array(p) ==
    /\ p.annotation # NoAnnotation
    /\ Len(p.annotation) >= 3
    /\ p.annotation[1] = "array_count:"
    /\ p.annotation[2] # " "
    /\ p.annotation[3] = ";"

\* m.group(1) of is_array
CountName(p) == p.annotation[2]

\* Parameter.is_out_string, lines 277-280
is_out_string(p) ==
    /\ p.annotation # NoAnnotation
    /\ p.annotation = OutStringAnnotation

\* Parameter.is_output, lines 282-292
is_output(p) ==
    IF p.is_count THEN FALSE
    ELSE IF p.type.kind # "POINTER" THEN FALSE
    ELSE IF p.type.pconst THEN FALSE
    ELSE IF p.type.pkind = "VOID" THEN FALSE
    ELSE TRUE

\* Parameter.is_input, lines 294-308
is_input(p) ==
    IF p.is_count THEN FALSE
    ELSE IF is_array(p) THEN TRUE
    ELSE IF p.name = "pEvent" THEN TRUE
    ELSE IF p.name = "uncbVREvent" THEN FALSE
    ELSE IF p.name = "unControllerStateSize" THEN FALSE
    ELSE IF ~is_output(p) THEN TRUE
    ELSE FALSE

(***************************************************************************)
(* The rendered wrapper: a signature and a body.  A body is the sequence   *)
(* of its statements, an argument or a returned value an expression.       *)
(***************************************************************************)
Expr(form, name) == [form |-> form, name |-> name]
Stmt(op, target, name, args, flag) ==
    [op |-> op, target |-> target, name |-> name, args |-> args, flag |-> flag]

ArgName(name) == name \o "Arg"

\* re.match(r'^unTrackedDevice.*Count$', count_param), on the names of the model
IsDeviceCount(count_param) == count_param \in {"unTrackedDevicePoseArrayCount"}

\* Parameter.pre_call_block, lines 310-347
pre_call_block(p) ==
    IF is_array(p)
    THEN <<Stmt("array_block", CountName(p), p.name, <<>>, IsDeviceCount(CountName(p)))>>
    ELSE IF is_out_string(p) THEN <<>>
    ELSE IF p.is_count THEN <<>>
    ELSE IF p.name = "uncbVREvent"
    THEN <<Stmt("sizeof", "uncbVREvent", "VREvent_t", <<>>, FALSE)>>
    ELSE IF p.name = "unControllerStateSize"
    THEN <<Stmt("sizeof", "uncbVREvent", "VRControllerState_t", <<>>, FALSE)>>
    ELSE IF ~is_input(p)
    THEN <<Stmt("alloc", p.name, "", <<>>, IsErrorName(p.type.pointee_translated))>>
    ELSE <<>>

\* Parameter.post_call_block, lines 349-355
post_call_block(p) ==
    IF is_error(p) THEN <<Stmt("check_error", "", p.name, <<>>, FALSE)>> ELSE <<>>

\* Parameter.input_param_name, lines 357-362: <<>> for None
input_param_name(p) == IF ~is_input(p) THEN <<>> ELSE <<p.name>>

\* Parameter.call_param_name, lines 364-376
call_param_name(p) ==
    IF is_array(p) THEN Expr("name", ArgName(p.name))
    ELSE IF p.is_count THEN Expr("name", p.name)
    ELSE IF is_out_string(p) THEN Expr("name", p.name)
    ELSE IF is_output(p) THEN Expr("byref", p.name)
    ELSE IF p.type.kind = "POINTER" THEN Expr("byref", p.name)
    ELSE Expr("name", p.name)

\* Parameter.return_param_name, lines 378-389: <<>> for None
return_param_name(p) ==
    IF is_error(p) THEN <<>>
    ELSE IF is_out_string(p) THEN <<Expr("bytes_value", p.name)>>
    ELSE IF ~is_output(p) THEN <<>>
    ELSE IF StartsWith(p.type.pointee_translated, S_c_)
         THEN <<Expr("value", p.name)>>
         ELSE <<Expr("name", p.name)>>

\* name[0].lower() + name[1:], lines 178 and 233
LowerSeq == <<"a","b","c","d","e","f","g","h","i","j","k","l","m",
              "n","o","p","q","r","s","t","u","v","w","x","y","z">>
UpperSeq == <<"A","B","C","D","E","F","G","H","I","J","K","L","M",
              "N","O","P","Q","R","S","T","U","V","W","X","Y","Z">>
LowerChar(c) ==
    IF c \in Upper THEN LowerSeq[CHOOSE k \in 1..Len(UpperSeq) : UpperSeq[k] = c] ELSE c
LowerFirst(name) == <<LowerChar(name[1])>> \o Tail(name)

\* A Method: Method.__init__, lines 159-163
Method(name, type_) ==
    [name |-> name, type |-> type_, parameters |-> <<>>, count_parameter_names |-> {}]

\* Method.add_parameter, lines 168-175
add_parameter(m, parameter) ==
    LET names == IF is_array(parameter)
                 THEN m.count_parameter_names \cup {CountName(parameter)}
                 ELSE m.count_parameter_names
        tagged == IF parameter.name \in names
                  THEN [parameter EXCEPT !.is_count = TRUE]
                  ELSE parameter
    IN  [m EXCEPT !.count_parameter_names = names,
                  !.parameters = Append(@, tagged)]

\* Function.add_parameter, lines 154-155
function_add_parameter(m, parameter) ==
    [m EXCEPT !.parameters = Append(@, parameter)]

\* a function-table entry that keeps the C++ name as it is spelled
fntable_string_as_spelled(m) ==
    [name |-> m.name,
     param_list |-> <<translate_type(m.type, FALSE)>>
                    \o [k \in 1..Len(m.parameters) |-> m.parameters[k].type.translated]]

\* Method.ctypes_fntable_string, lines 177-184
ctypes_fntable_string(m) ==
    [name |-> LowerFirst(m.name),
     param_list |-> <<translate_type(m.type, FALSE)>>
                    \o [k \in 1..Len(m.parameters) |-> m.parameters[k].type.translated]]

\* Method.has_return, lines 186-192
has_return(m) ==
    IF m.type = S_void THEN FALSE
    ELSE IF \E k \in 1..Len(m.parameters) : is_out_string(m.parameters[k]) THEN FALSE
    ELSE TRUE

\* lines 203-221 of Method.ctypes_string: the output strings, from parameter
\* pix on.  acc holds the parameters as marked so far and the statements;
\* raised is the IndexError of self.parameters[pix + 1] past the last one.
RECURSIVE OutStringPass(_, _)
OutStringPass(acc, pix) ==
    IF pix > Len(acc.parameters) THEN acc
    ELSE IF ~is_out_string(acc.parameters[pix]) THEN OutStringPass(acc, pix + 1)
    ELSE IF pix + 1 > Len(acc.parameters) THEN [acc EXCEPT !.raised = TRUE]
    ELSE LET ps == [acc.parameters EXCEPT ![pix + 1].is_count = TRUE]
             p == ps[pix]
             len_param == ps[pix + 1]
             call_params0 ==
                 [k \in 1..Len(ps) |->
                     IF k = pix THEN Expr("None", "")
                     ELSE IF k = pix + 1 THEN Expr("0", "")
                     ELSE call_param_name(ps[k])]
         IN  OutStringPass(
                 [acc EXCEPT
                     !.parameters = ps,
                     !.statements = @ \o
                         <<Stmt("call", len_param.name, "", call_params0, FALSE),
                           Stmt("return_if_zero", "", len_param.name, <<>>, FALSE),
                           Stmt("string_buffer", p.name, len_param.name, <<>>, FALSE)>>],
                 pix + 1)

Collect(ps, F(_)) == Flatten([k \in 1..Len(ps) |-> F(ps[k])])

\* Method.ctypes_string, lines 194-251: the parameters as the rendering leaves
\* them, whether it raised, and the rendered signature and body
ctypes_string(m) ==
    LET pass == OutStringPass([parameters |-> m.parameters, statements |-> <<>>,
                               raised |-> FALSE], 1)
        ps == pass.parameters
        in_params == <<"self">> \o Collect(ps, input_param_name)
        call_params == [k \in 1..Len(ps) |-> call_param_name(ps[k])]
        out_params == (IF has_return(m) THEN <<Expr("name", "result")>> ELSE <<>>)
                      \o Collect(ps, return_param_name)
        pre_call_statements == pass.statements \o Collect(ps, pre_call_block)
        post_call_statements == Collect(ps, post_call_block)
        method_name == LowerFirst(m.name)
        body ==
            <<Stmt("function_table", "fn", method_name, <<>>, FALSE)>>
            \o pre_call_statements
            \o <<Stmt("call", IF has_return(m) THEN "result" ELSE "", "", call_params, FALSE)>>
            \o post_call_statements
            \o (IF Len(out_params) > 0
                THEN <<Stmt("return", "", "", out_params, FALSE)>> ELSE <<>>)
    IN  IF pass.raised
        THEN [parameters |-> ps, raised |-> TRUE, name |-> <<>>, in_params |-> <<>>,
              body |-> <<>>]
        ELSE [parameters |-> ps, raised |-> FALSE, name |-> method_name,
              in_params |-> in_params, body |-> body]

\* Function.__str__, lines 99-152: the rendered signature and body
function_str(f) ==
    LET ps == f.parameters
        errors == {k \in 1..Len(ps) : is_error(ps[k])}
        params == Collect(ps, LAMBDA p : IF is_error(p) THEN <<>> ELSE <<p.name>>)
        call_params ==
            [k \in 1..Len(ps) |->
                IF ps[k].type.kind = "POINTER" /\ ~ps[k].type.pconst
                THEN Expr("byref", ps[k].name)
                ELSE Expr("name", ps[k].name)]
        call == Stmt("call", "result", "", call_params, FALSE)
        return == Stmt("return", "", "", <<Expr("name", "result")>>, FALSE)
        py_name == LowerFirst(IF StartsWith(f.name, S_VR_) THEN From(f.name, 4) ELSE f.name)
    IN  [parameters |-> ps, raised |-> FALSE, name |-> py_name, in_params |-> params,
         body |-> IF errors = {}
                  THEN <<call, return>>
                  ELSE LET error_param == ps[Max(errors)]
                       IN  <<Stmt("alloc", error_param.name, "", <<>>, TRUE),
                             call,
                             Stmt("checkInitError", "", error_param.name, <<>>, FALSE),
                             return>>]

\* A Class: Class.__init__, lines 17-20
Class(name) == [name |-> name, methods |-> <<>>]

\* Class.add_method, lines 53-54
add_method(c, method) == [c EXCEPT !.methods = Append(@, method)]

\* the loop of Class.__str__, lines 31-33, from method k on: str(method), which
\* may mark its parameters or raise, then its function-table entry
RECURSIVE MethodsPass(_, _)
RECURSIVE MethodsStep(_, _, _)
MethodsPass(acc, k) ==
    IF k > Len(acc.methods) THEN acc
    ELSE MethodsStep(acc, k, ctypes_string(acc.methods[k]))

\* lines 32-33 for method k, r being what str(method) did
MethodsStep(acc, k, r) ==
    IF r.raised
    THEN [acc EXCEPT !.methods[k].parameters = r.parameters, !.raised = TRUE]
    ELSE MethodsPass(
             [acc EXCEPT
                 !.methods[k].parameters = r.parameters,
                 !.wrappers = Append(@, [name |-> r.name, in_params |-> r.in_params,
                                         body |-> r.body]),
                 !.fields = Append(@, ctypes_fntable_string(acc.methods[k]))],
             k + 1)

\* Class.__str__, lines 22-51: the _fields_ of <name>_FnTable and the instance
\* methods of the wrapper class <name>
class_str(c) ==
    MethodsPass([methods |-> c.methods, raised |-> FALSE,
                 name |-> translate_type(c.name, FALSE),
                 fields |-> <<>>, wrappers |-> <<>>], 1)

(***************************************************************************)
(* A Method or Function is built by add_parameter, rendered, and the       *)
(* rendered wrapper is run against a native function that returns any      *)
(* value and leaves any status in the error objects it is handed by        *)
(* reference.  Parameter names of one declaration are distinct, as in C++. *)
(***************************************************************************)
Declared ==
    {[name |-> "n", type |-> T_uint32, annotation |-> NoAnnotation],
     [name |-> "arr", type |-> T_float_ptr, annotation |-> ArrayAnnotation("n")],
     [name |-> "pch", type |-> T_char_ptr, annotation |-> OutStringAnnotation],
     [name |-> "pError", type |-> T_error_ptr, annotation |-> NoAnnotation],
     [name |-> "pOut", type |-> T_float_ptr, annotation |-> NoAnnotation],
     [name |-> "unControllerStateSize", type |-> T_uint32, annotation |-> NoAnnotation],
     [name |-> "pEvent", type |-> T_error_ptr, annotation |-> NoAnnotation],
     [name |-> "pIn", type |-> T_const_ptr, annotation |-> NoAnnotation],
     [name |-> "pBuffer", type |-> T_void_ptr, annotation |-> NoAnnotation]}

\* the translate_type of the spellings of a type, which the properties of a
\* Parameter read
Translations(t) == [s \in {t.spelling, t.pointee} |-> translate_type(s, FALSE)]

Translated(t, tr) ==
    [kind |-> t.kind, spelling |-> t.spelling, pointee |-> t.pointee,
     pconst |-> t.pconst, pkind |-> t.pkind,
     translated |-> tr[t.spelling], pointee_translated |-> tr[t.pointee]]

ParamDecls ==
    {Parameter(d.name, Translated(d.type, Translations(d.type)), d.annotation) : d \in Declared}

S_GetProp == <<"G","e","t","P","r","o","p">>

NoRendering == [name |-> <<>>, in_params |-> <<>>, body |-> <<>>]
Running == [kind |-> "running", status |-> 0, at |-> ""]
EmptyEnv == [x \in {} |-> 0]

Value(k, v, err) == [k |-> k, v |-> v, err |-> err]
IntValue(v) == Value("int", v, FALSE)

mIdle ==
    /\ node = "none"
    /\ decl = Method(<<>>, <<>>)
    /\ mphase = "idle"
    /\ rendered = NoRendering
    /\ fntable = <<>>
    /\ pc = 0
    /\ env = EmptyEnv
    /\ calls = <<>>
    /\ outcome = Running

tIdle ==
    /\ origin = [kind |-> "none"]
    /\ type_name = <<>>
    /\ result = <<>>
    /\ result2 = <<>>
    /\ tphase = "idle"

MInit ==
    /\ tIdle
    /\ node \in {"Method", "Function"}
    /\ \E type_ \in {S_void, S_uint32_t} : decl = Method(S_GetProp, type_)
    /\ mphase = "build"
    /\ rendered = NoRendering
    /\ fntable = <<>>
    /\ pc = 0
    /\ env = EmptyEnv
    /\ calls = <<>>
    /\ outcome = Running

Fresh(d) == \A k \in 1..Len(decl.parameters) : decl.parameters[k].name # d.name

MethodAddParameter ==
    /\ node = "Method" /\ mphase = "build"
    /\ Len(decl.parameters) < MaxParams
    /\ \E d \in ParamDecls : Fresh(d) /\ decl' = add_parameter(decl, d)
    /\ UNCHANGED <<tvars, node, mphase, rendered, fntable, pc, env, calls, outcome>>

FunctionAddParameter ==
    /\ node = "Function" /\ mphase = "build"
    /\ Len(decl.parameters) < MaxParams
    /\ \E d \in ParamDecls : Fresh(d) /\ decl' = function_add_parameter(decl, d)
    /\ UNCHANGED <<tvars, node, mphase, rendered, fntable, pc, env, calls, outcome>>

\* the function-table entry of the Method is rendered
FnTableString ==
    /\ node = "Method" /\ mphase = "build"
    /\ fntable' = ctypes_fntable_string(decl)
    /\ mphase' = "tabled"
    /\ UNCHANGED <<tvars, node, decl, rendered, pc, env, calls, outcome>>

\* Method.__str__, lines 165-166
MethodStr ==
    /\ node = "Method" /\ mphase = "build"
    /\ \E r \in {ctypes_string(decl)} :
           /\ decl' = [decl EXCEPT !.parameters = r.parameters]
           /\ mphase' = IF r.raised THEN "raised" ELSE "rendered"
           /\ rendered' = [name |-> r.name, in_params |-> r.in_params, body |-> r.body]
    /\ UNCHANGED <<tvars, node, fntable, pc, env, calls, outcome>>

FunctionStr ==
    /\ node = "Function" /\ mphase = "build"
    /\ \E r \in {function_str(decl)} :
           /\ mphase' = "rendered"
           /\ rendered' = [name |-> r.name, in_params |-> r.in_params, body |-> r.body]
    /\ UNCHANGED <<tvars, node, decl, fntable, pc, env, calls, outcome>>

(***************************************************************************)
(* The run of a rendered wrapper, statement by statement.                  *)
(***************************************************************************)
Bind(e, name, val) == (name :> val) @@ e
Bound(name) == name \in DOMAIN env

\* the object a caller passes for an input parameter
InputValue(name) ==
    LET ks == {k \in 1..Len(decl.parameters) : decl.parameters[k].name = name}
    IN  Value("in", 0, \E k \in ks : is_error(decl.parameters[k]))

\* the wrapper is called: its signature's names are bound
CallWrapper ==
    /\ mphase = "rendered"
    /\ mphase' = "running"
    /\ pc' = 1
    /\ env' = [name \in {rendered.in_params[k] : k \in 1..Len(rendered.in_params)}
                  |-> InputValue(name)]
    /\ UNCHANGED <<tvars, node, decl, rendered, fntable, calls, outcome>>

At(op) ==
    /\ mphase = "running"
    /\ pc <= Len(rendered.body)
    /\ rendered.body[pc].op = op

Step(env2) ==
    /\ env' = env2
    /\ pc' = pc + 1
    /\ UNCHANGED <<tvars, node, decl, mphase, rendered, fntable, calls, outcome>>

Finish(kind, status, at) ==
    /\ outcome' = [kind |-> kind, status |-> status, at |-> at]
    /\ mphase' = "done"
    /\ UNCHANGED <<tvars, node, decl, rendered, fntable, pc, env, calls>>

\* the names an expression sequence reads
Reads(es) == {es[k].name : k \in {j \in 1..Len(es) : es[j].form \notin {"None", "0"}}}

\* fn = self.function_table.<method_name>
ExecFunctionTable ==
    /\ At("function_table")
    /\ Step(Bind(env, rendered.body[pc].target, Value("fn", 0, FALSE)))

\* [target =] fn(args): unbound names raise before the call; otherwise the
\* native function returns any value and leaves any status in each error
\* object passed by reference
ExecCall ==
    /\ At("call")
    /\ LET st == rendered.body[pc]
           writable == {st.args[k].name :
                           k \in {j \in 1..Len(st.args) :
                                     /\ st.args[j].form = "byref"
                                     /\ Bound(st.args[j].name)
                                     /\ env[st.args[j].name].err}}
       IN  IF ~(Reads(st.args) \subseteq DOMAIN env)
           THEN Finish("NameError", 0, "call")
           ELSE \E ret \in 0..MaxRet, w \in [writable -> 0..MaxStatus] :
                  LET env1 == [x \in DOMAIN env |->
                                  IF x \in writable THEN [env[x] EXCEPT !.v = w[x]]
                                  ELSE env[x]]
                      vals == [k \in 1..Len(st.args) |->
                                  IF st.args[k].form = "None" THEN Value("none", 0, FALSE)
                                  ELSE IF st.args[k].form = "0" THEN IntValue(0)
                                  ELSE env[st.args[k].name]]
                  IN  /\ calls' = Append(calls, [args |-> st.args, vals |-> vals,
                                                 ret |-> ret, wrote |-> w])
                      /\ env' = IF st.target = "" THEN env1
                                ELSE Bind(env1, st.target, IntValue(ret))
                      /\ pc' = pc + 1
                      /\ UNCHANGED <<tvars, node, decl, mphase, rendered, fntable, outcome>>

\* if <name> == 0: return b''
ExecReturnIfZero ==
    /\ At("return_if_zero")
    /\ LET st == rendered.body[pc]
       IN  IF ~Bound(st.name) THEN Finish("NameError", 0, "return_if_zero")
           ELSE IF env[st.name] = IntValue(0) THEN Finish("return", 0, "return_if_zero")
           ELSE Step(env)

\* <target> = ctypes.create_string_buffer(<name>)
ExecStringBuffer ==
    /\ At("string_buffer")
    /\ LET st == rendered.body[pc]
       IN  IF ~Bound(st.name) THEN Finish("NameError", 0, "string_buffer")
           ELSE Step(Bind(env, st.target, Value("buffer", env[st.name].v, FALSE)))

\* if <name> is None: ... else: ...  The caller passed None or an array.
ExecArrayBlock ==
    /\ At("array_block")
    /\ LET st == rendered.body[pc]
           ref == Value("ref", 0, FALSE)
       IN  IF ~Bound(st.name) THEN Finish("NameError", 0, "array_block")
           ELSE \/ /\ ~st.flag
                   /\ Step(Bind(Bind(env, st.target, IntValue(0)),
                                ArgName(st.name), Value("none", 0, FALSE)))
                \/ /\ st.flag
                   /\ Step(Bind(Bind(Bind(env, st.target, IntValue(1)),
                                     st.name, Value("array", 0, FALSE)),
                                ArgName(st.name), ref))
                \/ Step(Bind(Bind(env, st.target, IntValue(1)), ArgName(st.name), ref))

\* <target> = sizeof(<name>)
ExecSizeof ==
    /\ At("sizeof")
    /\ Step(Bind(env, rendered.body[pc].target, IntValue(1)))

\* <target> = <t>()
ExecAlloc ==
    /\ At("alloc")
    /\ Step(Bind(env, rendered.body[pc].target, Value("object", 0, rendered.body[pc].flag)))

\* if <name>.value != 0: raise OpenVRError(str(<name>))
ExecCheckError ==
    /\ At("check_error")
    /\ LET st == rendered.body[pc]
       IN  IF ~Bound(st.name) THEN Finish("NameError", 0, "check_error")
           ELSE IF env[st.name].k \notin {"object", "in"}
           THEN Finish("AttributeError", 0, "check_error")
           ELSE IF env[st.name].v # 0 THEN Finish("OpenVRError", env[st.name].v, "check_error")
           ELSE Step(env)

\* _checkInitError(<name>.value): raises on a status other than 0
ExecCheckInitError ==
    /\ At("checkInitError")
    /\ LET st == rendered.body[pc]
       IN  IF ~Bound(st.name) THEN Finish("NameError", 0, "checkInitError")
           ELSE IF env[st.name].v # 0
           THEN Finish("OpenVRError", env[st.name].v, "checkInitError")
           ELSE Step(env)

\* return <results>
ExecReturn ==
    /\ At("return")
    /\ IF Reads(rendered.body[pc].args) \subseteq DOMAIN env
       THEN Finish("return", 0, "return")
       ELSE Finish("NameError", 0, "return")

\* the body ends without a return statement
ExecEnd ==
    /\ mphase = "running"
    /\ pc = Len(rendered.body) + 1
    /\ Finish("return", 0, "end")

MNext ==
    \/ MethodAddParameter
    \/ FunctionAddParameter
    \/ FnTableString
    \/ MethodStr
    \/ FunctionStr
    \/ CallWrapper
    \/ ExecFunctionTable
    \/ ExecCall
    \/ ExecReturnIfZero
    \/ ExecStringBuffer
    \/ ExecArrayBlock
    \/ ExecSizeof
    \/ ExecAlloc
    \/ ExecCheckError
    \/ ExecCheckInitError
    \/ ExecReturn
    \/ ExecEnd

SpecMethod == MInit /\ [][MNext]_vars

(***************************************************************************)
(* A Class is built by add_method from Methods that are already built, and *)
(* rendered.                                                               *)
(***************************************************************************)
S_IVRSystem == S_vr \o <<"I","V","R","S","y","s","t","e","m">>
S_IsReady == <<"I","s","R","e","a","d","y">>
S_reset == <<"r","e","s","e","t">>

DeclNamed(name) == CHOOSE d \in ParamDecls : d.name = name

RECURSIVE Built(_, _)
Built(m, names) ==
    IF names = <<>> THEN m
    ELSE Built(add_parameter(m, DeclNamed(Head(names))), Tail(names))

Declarations ==
    {[name |-> S_GetProp, type |-> S_uint32_t, parameters |-> <<"pch", "n">>],
     [name |-> S_GetProp, type |-> S_uint32_t, parameters |-> <<"pch">>],
     [name |-> S_IsReady, type |-> S_bool, parameters |-> <<>>],
     [name |-> S_reset, type |-> S_void, parameters |-> <<"arr", "n">>],
     [name |-> S_reset, type |-> S_void, parameters |-> <<"n", "pOut">>]}

Methods == {Built(Method(d.name, d.type), d.parameters) : d \in Declarations}

CInit ==
    /\ tIdle
    /\ node = "Class"
    /\ decl = Class(S_IVRSystem)
    /\ mphase = "build"
    /\ rendered = NoRendering
    /\ fntable = <<>>
    /\ pc = 0
    /\ env = EmptyEnv
    /\ calls = <<>>
    /\ outcome = Running

ClassAddMethod ==
    /\ node = "Class" /\ mphase = "build"
    /\ Len(decl.methods) < MaxMethods
    /\ \E m \in Methods : decl' = add_method(decl, m)
    /\ UNCHANGED <<tvars, node, mphase, rendered, fntable, pc, env, calls, outcome>>

\* Class.__str__, lines 22-51
ClassStr ==
    /\ node = "Class" /\ mphase = "build"
    /\ \E r \in {class_str(decl)} :
           /\ decl' = [decl EXCEPT !.methods = r.methods]
           /\ mphase' = IF r.raised THEN "raised" ELSE "rendered"
           /\ rendered' = [name |-> r.name, fields |-> r.fields, wrappers |-> r.wrappers]
    /\ UNCHANGED <<tvars, node, fntable, pc, env, calls, outcome>>

CNext == ClassAddMethod \/ ClassStr

SpecClass == CInit /\ [][CNext]_vars

(***************************************************************************)
(* The translator as a state machine: a spelling is drawn, translated, and *)
(* its translation is translated again.                                    *)
(***************************************************************************)
TInit ==
    /\ mIdle
    /\ origin \in Origins
    /\ type_name = Spelling(origin)
    /\ result = <<>>
    /\ result2 = <<>>
    /\ tphase = "input"

Translate ==
    /\ tphase = "input"
    /\ result' = translate_type(type_name, FALSE)
    /\ tphase' = "translated"
    /\ UNCHANGED <<origin, type_name, result2, mvars>>

Retranslate ==
    /\ tphase = "translated"
    /\ result # NoResult
    /\ result2' = translate_type(result, FALSE)
    /\ tphase' = "retranslated"
    /\ UNCHANGED <<origin, type_name, result, mvars>>

TNext == Translate \/ Retranslate

SpecTranslate == TInit /\ [][TNext]_vars

(***************************************************************************)
(* Properties of translate_type.                                           *)
(***************************************************************************)
RECURSIVE PointerWrap(_, _)
PointerWrap(n, t) == IF n = 0 THEN t ELSE S_POINTER \o PointerWrap(n - 1, t) \o S_close

\* dims[1] is the last multiplier applied; every inner level is parenthesised
RECURSIVE ArrayNest(_, _, _)
ArrayNest(t, dims, top) ==
    IF dims = <<>> THEN t
    ELSE LET r == ArrayNest(t, Tail(dims), FALSE) \o S_times \o Head(dims)
         IN  IF top THEN r ELSE S_open \o r \o S_close

Alphabet == Lower \cup Upper \cup Digit \cup {"_", " ", "*", "&", "(", ")", "[", "]", ":"}
IsString(s) == s # NoResult /\ \A k \in 1..Len(s) : s[k] \in Alphabet

\* C5 as stated: for every primitive base type B and every N >= 0, B followed
\* by N '*' translates to N nested POINTER(...) around translate_type(B).
C5_AsStated ==
    (tphase # "input" /\ origin.kind = "pointer" /\ origin.base \in Primitives)
        => result = PointerWrap(origin.stars, translate_type(origin.base, FALSE))

\* C5 amended: the same, except that char followed by exactly one '*' is the
\* byte-string type c_char_p and not POINTER(c_char).
C5_PointerNesting ==
    (tphase # "input" /\ origin.kind = "pointer" /\ origin.base \in Primitives)
        => IF origin.base = S_char /\ origin.stars = 1
           THEN result = S_c_char_p
           ELSE result = PointerWrap(origin.stars, translate_type(origin.base, FALSE))

C5_Witness ==
    /\ tphase = "translated"
    /\ origin.kind = "pointer" /\ origin.base = S_long \o Blank \o S_long
    /\ origin.stars = MaxStars
    /\ result = PointerWrap(MaxStars, S_c_ \o S_longlong)

\* C6 as stated: every output of translate_type, array forms included, is a
\* fixed point of translate_type.
C6_AsStated ==
    (tphase = "retranslated" /\ origin.kind \in {"pointer", "array"})
        => result2 = result

\* C6 amended: the outputs that carry no array multiplier (c_ primitives,
\* c_char_p, c_void_p, None, openvr_bool and POINTER(T) over these) are fixed
\* points of translate_type.
C6_Idempotent ==
    (tphase = "retranslated" /\ origin.kind = "pointer") => result2 = result

C6_Witness ==
    /\ tphase = "retranslated"
    /\ origin.kind = "pointer" /\ origin.base = S_void /\ origin.stars = 2
    /\ result = S_POINTER \o S_c_void_p \o S_close
    /\ result2 = result

\* C7: T[d1]...[dk] over a primitive T translates to the k-level array
\* expression over translate_type(T) with d1 the outermost multiplier, every
\* inner level parenthesised and the top level not.
C7_ArrayNesting ==
    (tphase # "input" /\ origin.kind = "array")
        => result = ArrayNest(translate_type(origin.base, FALSE), origin.dims, TRUE)

C7_Witness ==
    /\ tphase = "translated"
    /\ origin.kind = "array" /\ origin.base = S_float
    /\ origin.dims = <<(<<"3">>), (<<"4">>)>>
    /\ result = <<"(","c","_","f","l","o","a","t"," ","*"," ","4",")"," ","*"," ","3">>

\* C9: translate_type returns a string for every spelling, malformed ones
\* included: both loops reach their fixpoint and the recursion ends.
C9_Total ==
    /\ tphase # "input" => IsString(result)
    /\ tphase = "retranslated" => IsString(result2)

C9_Witness ==
    /\ tphase = "translated"
    /\ origin.kind = "malformed"
    /\ origin.frags = <<S_int, S_ptr, (<<"*">>)>>
    /\ IsString(result)

(***************************************************************************)
(* Properties of Method, Function and Class.                               *)
(***************************************************************************)
Params == decl.parameters
Indices(ps) == 1..Len(ps)
Named(ps) == {k \in Indices(ps) :
                 \E j \in Indices(ps) : is_array(ps[j]) /\ CountName(ps[j]) = ps[k].name}
Errors(ps) == {k \in Indices(ps) : is_error(ps[k])}
OutStrings(ps) == {k \in Indices(ps) : is_out_string(ps[k])}

\* C1: while a Method is under construction, is_count is true of exactly the
\* parameters that an array parameter of the Method names as its count,
\* whether they were added before or after that array parameter.
C1_CountMarking ==
    (node = "Method" /\ mphase = "build")
        => \A k \in Indices(Params) : Params[k].is_count <=> k \in Named(Params)

\* C2: when the run of a wrapper with one error parameter has ended and the
\* last native call left a status other than zero in that parameter, the
\* wrapper has raised OpenVRError with that status.
C2_ErrorSurfaced ==
    (mphase = "done" /\ node \in {"Method", "Function"}
        /\ Cardinality(Errors(Params)) = 1 /\ calls # <<>>)
        => LET e == Params[CHOOSE k \in Errors(Params) : TRUE].name
               last == calls[Len(calls)]
           IN  (e \in DOMAIN last.wrote /\ last.wrote[e] # 0)
                   => outcome.kind = "OpenVRError" /\ outcome.status = last.wrote[e]

\* C3: when the run of the wrapper of a Method with one output string has
\* ended, its first native call was the probe, with None for the string and
\* 0 for the length after it; after a probe that returned 0 the wrapper
\* returned the empty byte string with no second call, and after any other
\* probe it made one more call, with a buffer of the probed length.
C3_ProbeThenCall ==
    (mphase = "done" /\ node = "Method" /\ Cardinality(OutStrings(Params)) = 1)
        => LET pix == CHOOSE k \in OutStrings(Params) : TRUE
           IN  /\ Len(calls) >= 1
               /\ calls[1].vals[pix] = Value("none", 0, FALSE)
               /\ calls[1].vals[pix + 1] = IntValue(0)
               /\ calls[1].ret = 0
                      => Len(calls) = 1 /\ outcome = [kind |-> "return", status |-> 0,
                                                      at |-> "return_if_zero"]
               /\ calls[1].ret # 0
                      => /\ Len(calls) = 2
                         /\ calls[2].vals[pix] = Value("buffer", calls[1].ret, FALSE)

\* C4: the rendered Class has one function-table entry and one instance
\* method per added method, in the order of addition, and the i-th instance
\* method fetches the function-table field named by the i-th entry.
C4_TableOrder ==
    (node = "Class" /\ mphase = "rendered")
        => /\ Len(rendered.fields) = Len(decl.methods)
           /\ Len(rendered.wrappers) = Len(decl.methods)
           /\ \A i \in 1..Len(decl.methods) :
                  /\ rendered.fields[i].name = LowerFirst(decl.methods[i].name)
                  /\ Len(rendered.fields[i].param_list) = 1 + Len(decl.methods[i].parameters)
                  /\ rendered.wrappers[i].name = rendered.fields[i].name
                  /\ rendered.wrappers[i].body[1].op = "function_table"
                  /\ rendered.wrappers[i].body[1].name = rendered.fields[i].name

C4_Witness ==
    /\ node = "Class" /\ mphase = "rendered"
    /\ Len(decl.methods) = 3
    /\ decl.methods[1].name = S_reset
    /\ decl.methods[2].name = S_GetProp
    /\ decl.methods[3].name = S_IsReady
    /\ rendered.fields[2].name = <<"g","e","t","P","r","o","p">>
    /\ rendered.wrappers[3].name = <<"i","s","R","e","a","d","y">>

\* C8: rendering a Method, by __str__ or by ctypes_fntable_string, leaves the
\* Method as it was: its parameters, their is_count, its count names.
C8_RenderReadOnly ==
    [][(node = "Method" /\ mphase = "build" /\ mphase' # "build") => decl' = decl]_vars

\* C10: no native call of a rendered Method body reads a name that is not
\* bound when the call executes.
C10_ArgumentsBound ==
    node = "Method" => ~(outcome.kind = "NameError" /\ outcome.at = "call")

====
